---- MODULE Spec2Model ----
(***************************************************************************)
(* Model of video-cut1.py: a range file is parsed and validated, the fade  *)
(* duration is checked against the shortest range, every range is cut by   *)
(* the media engine into a temporary directory, the segments are           *)
(* concatenated into the output file and, when a subtitle file is given,   *)
(* its cues are re-timed and muxed into the output.                        *)
(*                                                                         *)
(* Times are integers counted in ticks; TicksPerMs ticks make one          *)
(* millisecond, so that range times with more than three decimals          *)
(* (parse_time takes any number of decimals) can be told apart from the    *)
(* millisecond-aligned times of subtitle cues.                             *)
(***************************************************************************)
EXTENDS Integers, Sequences, FiniteSets, TLC

\* ------------------------------------------------------------------ bounds
TicksPerMs == 10
MaxLines == 2
MaxRanges == 2
MaxCues == 2

\* ------------------------------------------------------- program constants
MsPerSec == 1000
SecPerMin == 60
SecPerHour == 3600

TicksPerSec == TicksPerMs * MsPerSec
Sec(n) == n * TicksPerSec

VARIABLES
    pc,             \* position of main()
    lines,          \* the non-blank lines of the range file
    overlap,        \* args.overlap, in ticks
    subtitle,       \* TRUE iff args.subtitle was given
    srt_lines,      \* the cues of the subtitle file, in file order
    ranges,         \* result of parse_time_ranges_file
    message,        \* what the run printed last (or the uncaught exception)
    exitCode,       \* process exit status, -1 while running
    segment_files,  \* cut_and_fade_segments' list of produced segments
    temp_dir,       \* "none", "open" or "removed"
    tempFiles,      \* the files inside temp_dir
    concat_file,    \* TRUE iff output_file + '.concat.txt' exists
    output_file,    \* content of the output path
    engineLog,      \* the engine invocations so far
    new_srt         \* the cues adjust_subtitle wrote

vars == <<pc, lines, overlap, subtitle, srt_lines, ranges, message, exitCode,
          segment_files, temp_dir, tempFiles, concat_file, output_file,
          engineLog, new_srt>>

\* ------------------------------------------------------------ time parser
\* A time string is the sequence of its colon-separated numeric groups; the
\* third group is the (possibly fractional) seconds field, held in ticks.
\* A string with fewer than two groups does not match the pattern.
parse_time_matches(time_str) == Len(time_str) >= 2

parse_time(time_str) ==
    LET h == time_str[1]
        m == time_str[2]
        s == IF Len(time_str) >= 3 THEN time_str[3] ELSE 0
    IN  h * SecPerHour * TicksPerSec + m * SecPerMin * TicksPerSec + s

\* ------------------------------------------------------- range validator
NoError == "none"
InvalidTime == "Invalid time"
InvalidRange == "Invalid time range"
StartGeEnd == "Start time >= end time"
NotSorted == "Time ranges are not sorted or overlap"

RECURSIVE ParseLines(_, _, _)
ParseLines(ls, i, acc) ==
    IF i > Len(ls) THEN [err |-> NoError, ranges |-> acc]
    ELSE LET line == ls[i] IN
         IF line.kind # "range"
         THEN [err |-> InvalidRange, ranges |-> <<>>]
         ELSE IF ~parse_time_matches(line.s) \/ ~parse_time_matches(line.e)
         THEN [err |-> InvalidTime, ranges |-> <<>>]
         ELSE LET start == parse_time(line.s)
                  end == parse_time(line.e)
              IN  IF start >= end
                  THEN [err |-> StartGeEnd, ranges |-> <<>>]
                  ELSE ParseLines(ls, i + 1, Append(acc, <<start, end>>))

\* Variant: touching ranges are taken for overlapping ones.
SortedCheckStrict(rs) == \A i \in 2..Len(rs) : ~(rs[i-1][2] >= rs[i][1])

SortedCheck(rs) == \A i \in 2..Len(rs) : ~(rs[i-1][2] > rs[i][1])

parse_time_ranges_file(ls) ==
    LET r == ParseLines(ls, 1, <<>>) IN
    IF r.err # NoError THEN r
    ELSE IF ~SortedCheck(r.ranges) THEN [err |-> NotSorted, ranges |-> <<>>]
    ELSE r

Durations(rs) == {rs[i][2] - rs[i][1] : i \in 1..Len(rs)}

get_min_duration(rs) ==
    CHOOSE d \in Durations(rs) : \A e \in Durations(rs) : d <= e

\* ------------------------------------------------------ subtitle retimer
srt_time_to_sec(t) ==
    t.h * SecPerHour * TicksPerSec + t.m * SecPerMin * TicksPerSec
        + t.s * TicksPerSec + t.ms * TicksPerMs

\* Python's round(): to the nearest integer, ties to the even one.
PyRound(num, den) ==
    LET q == num \div den
        r == num % den
    IN  IF 2 * r < den THEN q
        ELSE IF 2 * r > den THEN q + 1
        ELSE IF q % 2 = 0 THEN q ELSE q + 1

sec_to_srt_time(sec) ==
    [h  |-> sec \div (SecPerHour * TicksPerSec),
     m  |-> (sec % (SecPerHour * TicksPerSec)) \div (SecPerMin * TicksPerSec),
     s  |-> (sec % (SecPerMin * TicksPerSec)) \div TicksPerSec,
     ms |-> PyRound((sec % TicksPerSec) * MsPerSec, TicksPerSec)]

RECURSIVE seg_offset(_, _)
seg_offset(rs, seg_idx) ==
    IF seg_idx <= 1 THEN 0
    ELSE seg_offset(rs, seg_idx - 1) + (rs[seg_idx - 1][2] - rs[seg_idx - 1][1])

\* Variant: a cue that merely starts inside the range is kept.
CueStartsInSegment(st, et, start, end) == st >= start /\ st <= end

CueInSegment(st, et, start, end) == st >= start /\ et <= end

\* The inner loop over the subtitle lines for one range.  An emitted entry
\* carries its number, the source cue whose text it copies (src), the range
\* it was emitted for (seg) and the two written timestamps.
RECURSIVE ScanCues(_, _, _, _, _)
ScanCues(cues, rs, seg_idx, i, acc) ==
    IF i > Len(cues) THEN acc
    ELSE LET c == cues[i]
             start == rs[seg_idx][1]
             end == rs[seg_idx][2]
             st == srt_time_to_sec(c.st)
             et == srt_time_to_sec(c.et)
             off == seg_offset(rs, seg_idx)
         IN  IF c.ok /\ CueInSegment(st, et, start, end)
             THEN ScanCues(cues, rs, seg_idx, i + 1,
                      Append(acc, [idx |-> Len(acc) + 1,
                                   src |-> i,
                                   seg |-> seg_idx,
                                   st  |-> sec_to_srt_time(st - start + off),
                                   et  |-> sec_to_srt_time(et - start + off)]))
             ELSE ScanCues(cues, rs, seg_idx, i + 1, acc)

RECURSIVE ScanRanges(_, _, _, _)
ScanRanges(cues, rs, seg_idx, acc) ==
    IF seg_idx > Len(rs) THEN acc
    ELSE ScanRanges(cues, rs, seg_idx + 1, ScanCues(cues, rs, seg_idx, 1, acc))

adjust_subtitle(cues, rs) == ScanRanges(cues, rs, 1, <<>>)

\* ------------------------------------------------------------- artifacts
SegmentPath(idx) == <<"segment", idx>>
TempSrt == <<"output.srt", 0>>
TempMux == <<"mux.mp4", 0>>

\* Variant: the directory is left behind with its content.
TemporaryDirectoryLeak(files) == files

\* tempfile.TemporaryDirectory().__exit__: the directory and all it holds go.
TemporaryDirectoryExit(files) == {}

SegmentCall(r) ==
    [op |-> "segment", ss |-> r[1], t |-> r[2] - r[1],
     mode |-> IF overlap > 0 THEN "fade" ELSE "copy"]
ConcatCall == [op |-> "concat", ss |-> 0, t |-> 0, mode |-> "copy"]
MuxCall == [op |-> "mux", ss |-> 0, t |-> 0, mode |-> "copy"]

FadeMessage == "fade longer than shortest range"
DoneMessage == "done"

\* An exception leaves the with-block: the temporary directory is removed
\* and the interpreter ends with status 1.
Raise(files, what) ==
    /\ tempFiles' = TemporaryDirectoryExit(files)
    /\ temp_dir' = "removed"
    /\ pc' = "raised"
    /\ message' = what
    /\ exitCode' = 1

\* ---------------------------------------------------------------- main()
ParseOk ==
    /\ pc = "parse"
    /\ parse_time_ranges_file(lines).err = NoError
    /\ ranges' = parse_time_ranges_file(lines).ranges
    /\ pc' = "mindur"
    /\ UNCHANGED <<lines, overlap, subtitle, srt_lines, message, exitCode,
                   segment_files, temp_dir, tempFiles, concat_file,
                   output_file, engineLog, new_srt>>

ParseError ==
    /\ pc = "parse"
    /\ parse_time_ranges_file(lines).err # NoError
    /\ message' = parse_time_ranges_file(lines).err
    /\ exitCode' = 1
    /\ pc' = "exit1"
    /\ UNCHANGED <<lines, overlap, subtitle, srt_lines, ranges,
                   segment_files, temp_dir, tempFiles, concat_file,
                   output_file, engineLog, new_srt>>

ParseRanges == ParseOk \/ ParseError

\* min() of an empty sequence raises ValueError outside any try block.
MinDurationRaises ==
    /\ pc = "mindur"
    /\ Len(ranges) = 0
    /\ pc' = "raised"
    /\ message' = "uncaught: min() arg is an empty sequence"
    /\ exitCode' = 1
    /\ UNCHANGED <<lines, overlap, subtitle, srt_lines, ranges,
                   segment_files, temp_dir, tempFiles, concat_file,
                   output_file, engineLog, new_srt>>

\* Variant: the fade is only checked once the first segment was encoded.
FadeTooLongAfterEncode ==
    /\ pc = "mindur"
    /\ Len(ranges) > 0
    /\ overlap > get_min_duration(ranges)
    /\ engineLog' = Append(engineLog, SegmentCall(ranges[1]))
    /\ pc' = "exit1"
    /\ message' = FadeMessage
    /\ exitCode' = 1
    /\ UNCHANGED <<lines, overlap, subtitle, srt_lines, ranges,
                   segment_files, temp_dir, tempFiles, concat_file,
                   output_file, new_srt>>

FadeTooLong ==
    /\ pc = "mindur"
    /\ Len(ranges) > 0
    /\ overlap > get_min_duration(ranges)
    /\ pc' = "exit1"
    /\ message' = FadeMessage
    /\ exitCode' = 1
    /\ UNCHANGED <<lines, overlap, subtitle, srt_lines, ranges,
                   segment_files, temp_dir, tempFiles, concat_file,
                   output_file, engineLog, new_srt>>

EnterTempDir ==
    /\ pc = "mindur"
    /\ Len(ranges) > 0
    /\ ~(overlap > get_min_duration(ranges))
    /\ pc' = "cut"
    /\ temp_dir' = "open"
    /\ UNCHANGED <<lines, overlap, subtitle, srt_lines, ranges, message,
                   exitCode, segment_files, tempFiles, concat_file,
                   output_file, engineLog, new_srt>>

CheckFade == MinDurationRaises \/ FadeTooLong \/ EnterTempDir

EncodeSegmentOk ==
    /\ pc = "cut"
    /\ LET idx == Len(segment_files) IN
        /\ engineLog' = Append(engineLog, SegmentCall(ranges[idx + 1]))
        /\ segment_files' = Append(segment_files, SegmentPath(idx))
        /\ tempFiles' = tempFiles \cup {SegmentPath(idx)}
        /\ pc' = IF idx + 1 = Len(ranges) THEN "concat" ELSE "cut"
    /\ UNCHANGED <<lines, overlap, subtitle, srt_lines, ranges, message,
                   exitCode, temp_dir, concat_file, output_file, new_srt>>

\* The engine fails on a segment; it may have left a partial segment file.
EncodeSegmentFail ==
    /\ pc = "cut"
    /\ LET idx == Len(segment_files) IN
        /\ engineLog' = Append(engineLog, SegmentCall(ranges[idx + 1]))
        /\ \E partial \in BOOLEAN :
              Raise(IF partial THEN tempFiles \cup {SegmentPath(idx)}
                    ELSE tempFiles, "uncaught: ffmpeg.Error")
    /\ UNCHANGED <<lines, overlap, subtitle, srt_lines, ranges,
                   segment_files, concat_file, output_file, new_srt>>

ConcatOk ==
    /\ pc = "concat"
    /\ engineLog' = Append(engineLog, ConcatCall)
    /\ output_file' = "video"
    /\ concat_file' = FALSE
    /\ pc' = IF subtitle THEN "retime" ELSE "leave"
    /\ UNCHANGED <<lines, overlap, subtitle, srt_lines, ranges, message,
                   exitCode, segment_files, temp_dir, tempFiles, new_srt>>

\* The list file is written, the engine fails, os.remove is never reached.
\* The failed engine is taken to deliver no artifact at the output path.
ConcatFail ==
    /\ pc = "concat"
    /\ engineLog' = Append(engineLog, ConcatCall)
    /\ concat_file' = TRUE
    /\ Raise(tempFiles, "uncaught: ffmpeg.Error")
    /\ UNCHANGED <<lines, overlap, subtitle, srt_lines, ranges,
                   segment_files, output_file, new_srt>>

RetimeOk ==
    /\ pc = "retime"
    /\ new_srt' = adjust_subtitle(srt_lines, ranges)
    /\ tempFiles' = tempFiles \cup {TempSrt}
    /\ pc' = "mux"
    /\ UNCHANGED <<lines, overlap, subtitle, srt_lines, ranges, message,
                   exitCode, segment_files, temp_dir, concat_file,
                   output_file, engineLog>>

\* open(srt_file) raises (missing or undecodable subtitle file).
RetimeFail ==
    /\ pc = "retime"
    /\ Raise(tempFiles, "uncaught: OSError")
    /\ UNCHANGED <<lines, overlap, subtitle, srt_lines, ranges,
                   segment_files, concat_file, output_file, engineLog,
                   new_srt>>

Retime == RetimeOk \/ RetimeFail

MuxOk ==
    /\ pc = "mux"
    /\ engineLog' = Append(engineLog, MuxCall)
    /\ tempFiles' = tempFiles \cup {TempMux}
    /\ pc' = "move"
    /\ UNCHANGED <<lines, overlap, subtitle, srt_lines, ranges, message,
                   exitCode, segment_files, temp_dir, concat_file,
                   output_file, new_srt>>

MuxFail ==
    /\ pc = "mux"
    /\ engineLog' = Append(engineLog, MuxCall)
    /\ \E partial \in BOOLEAN :
          Raise(IF partial THEN tempFiles \cup {TempMux} ELSE tempFiles,
                "uncaught: ffmpeg.Error")
    /\ UNCHANGED <<lines, overlap, subtitle, srt_lines, ranges,
                   segment_files, concat_file, output_file, new_srt>>

MoveMux ==
    /\ pc = "move"
    /\ output_file' = "muxed"
    /\ tempFiles' = tempFiles \ {TempMux}
    /\ pc' = "leave"
    /\ UNCHANGED <<lines, overlap, subtitle, srt_lines, ranges, message,
                   exitCode, segment_files, temp_dir, concat_file,
                   engineLog, new_srt>>

LeaveTempDir ==
    /\ pc = "leave"
    /\ tempFiles' = TemporaryDirectoryExit(tempFiles)
    /\ temp_dir' = "removed"
    /\ message' = DoneMessage
    /\ exitCode' = 0
    /\ pc' = "done"
    /\ UNCHANGED <<lines, overlap, subtitle, srt_lines, ranges,
                   segment_files, concat_file, output_file, engineLog,
                   new_srt>>

\* ------------------------------------------------------------ the inputs
SeqUpTo(S, n) == UNION {[1..k -> S] : k \in 0..n}

RangeLine(a, b) == [kind |-> "range", s |-> a, e |-> b]
GarbageLine == [kind |-> "garbage", s |-> <<>>, e |-> <<>>]

Stamp(hh, mm, ss, mmm) == [h |-> hh, m |-> mm, s |-> ss, ms |-> mmm]
Cue(a, b) == [ok |-> TRUE, st |-> a, et |-> b]
\* A line holding '-->' whose two sides carry no HH:MM:SS,mmm timestamp.
BrokenCue == [ok |-> FALSE, st |-> Stamp(0, 0, 0, 0), et |-> Stamp(0, 0, 0, 0)]

\* Range files of the whole run: well-formed, touching, reversed, malformed.
MainLines ==
    { RangeLine(<<0, 0, Sec(10)>>, <<0, 0, Sec(20)>>),
      RangeLine(<<0, 0, Sec(20)>>, <<0, 0, Sec(30)>>),
      RangeLine(<<0, 0, Sec(30)>>, <<0, 0, Sec(45)>>),
      RangeLine(<<0, 0, Sec(20)>>, <<0, 0, Sec(10)>>),
      RangeLine(<<5>>, <<0, 0, Sec(10)>>),
      GarbageLine }

MainOverlaps == {Sec(0 - 1), Sec(0), Sec(5), Sec(10), Sec(10) + 1, Sec(15)}

MainCueLists ==
    { <<>>,
      << Cue(Stamp(0, 0, 15, 0), Stamp(0, 0, 18, 0)),
         Cue(Stamp(0, 0, 18, 0), Stamp(0, 0, 22, 0)) >> }

Start(ls, ov, sub, cues) ==
    /\ pc = "parse"
    /\ lines = ls
    /\ overlap = ov
    /\ subtitle = sub
    /\ srt_lines = cues
    /\ ranges = <<>>
    /\ message = ""
    /\ exitCode = 0 - 1
    /\ segment_files = <<>>
    /\ temp_dir = "none"
    /\ tempFiles = {}
    /\ concat_file = FALSE
    /\ output_file = "absent"
    /\ engineLog = <<>>
    /\ new_srt = <<>>

Init ==
    \E ls \in SeqUpTo(MainLines, MaxLines), ov \in MainOverlaps,
       sub \in BOOLEAN, cues \in MainCueLists :
        /\ sub = FALSE => cues = <<>>
        /\ Start(ls, ov, sub, cues)

Next ==
    \/ ParseOk
    \/ ParseError
    \/ MinDurationRaises
    \/ FadeTooLong
    \/ EnterTempDir
    \/ EncodeSegmentOk
    \/ EncodeSegmentFail
    \/ ConcatOk
    \/ ConcatFail
    \/ RetimeOk
    \/ RetimeFail
    \/ MuxOk
    \/ MuxFail
    \/ MoveMux
    \/ LeaveTempDir

Spec == Init /\ [][Next]_vars

TypeOK ==
    /\ pc \in {"parse", "mindur", "cut", "concat", "retime", "mux", "move",
               "leave", "done", "exit1", "raised"}
    /\ exitCode \in {0 - 1, 0, 1}
    /\ temp_dir \in {"none", "open", "removed"}
    /\ output_file \in {"absent", "video", "muxed"}

\* ------------------------------------------- inputs of the range parser
ParseTimes ==
    { <<0, 5>>, <<0, 15>>, <<0, 30>>, <<0, 40>>,
      <<0, 0, Sec(5) + 5 * TicksPerMs>>, <<0, 5, Sec(0)>>, <<5>> }

ParseFileLines ==
    {RangeLine(a, b) : a \in ParseTimes, b \in ParseTimes} \cup {GarbageLine}

InitParse ==
    \E ls \in SeqUpTo(ParseFileLines, MaxLines) :
        Start(ls, Sec(0), FALSE, <<>>)

SpecParse == InitParse /\ [][ParseRanges]_vars

\* --------------------------------------- inputs of the subtitle retimer
Hours(n) == Sec(n * SecPerHour)

SubTimes ==
    {Sec(10), Sec(10) + 4, Sec(20), Sec(30), Sec(40), Hours(26)}

SubRanges == {r \in SubTimes \X SubTimes : r[1] < r[2]}

SubCues ==
    { Cue(Stamp(0, 0, 15, 0), Stamp(0, 0, 18, 0)),
      Cue(Stamp(0, 0, 25, 0), Stamp(0, 0, 28, 0)),
      Cue(Stamp(0, 0, 18, 0), Stamp(0, 0, 22, 0)),
      Cue(Stamp(0, 0, 20, 0), Stamp(0, 0, 20, 0)),
      Cue(Stamp(0, 0, 11, 0), Stamp(0, 0, 12, 500)),
      Cue(Stamp(25, 0, 0, 0), Stamp(25, 0, 1, 0)),
      BrokenCue }

\* The range file whose lines read back as rs.
LinesOf(rs) ==
    [i \in 1..Len(rs) |-> RangeLine(<<0, 0, rs[i][1]>>, <<0, 0, rs[i][2]>>)]

\* The state of a run that cut and concatenated rs and is about to re-time.
AtRetime(rs, cues) ==
    /\ pc = "retime"
    /\ lines = LinesOf(rs)
    /\ overlap = Sec(0)
    /\ subtitle = TRUE
    /\ srt_lines = cues
    /\ ranges = rs
    /\ message = ""
    /\ exitCode = 0 - 1
    /\ segment_files = [i \in 1..Len(rs) |-> SegmentPath(i - 1)]
    /\ temp_dir = "open"
    /\ tempFiles = {SegmentPath(i - 1) : i \in 1..Len(rs)}
    /\ concat_file = FALSE
    /\ output_file = "video"
    /\ engineLog = [i \in 1..Len(rs) |-> SegmentCall(rs[i])] \o <<ConcatCall>>
    /\ new_srt = <<>>

InitSub ==
    \E rs \in SeqUpTo(SubRanges, MaxRanges), cues \in SeqUpTo(SubCues, MaxCues) :
        /\ Len(rs) > 0
        /\ parse_time_ranges_file(LinesOf(rs)) = [err |-> NoError, ranges |-> rs]
        /\ AtRetime(rs, cues)

SpecSub == InitSub /\ [][Retime]_vars

\* ================================================================ claims
Parsed == pc \notin {"parse"}
Terminated == pc \in {"done", "exit1", "raised"}
Failed == pc \in {"exit1", "raised"}
ReachedMedia == temp_dir # "none"

\* What the specification says a time string means: M:S for two groups,
\* H:M:S for three.
SpecTime(t) ==
    IF Len(t) = 2 THEN (t[1] * SecPerMin) * TicksPerSec + t[2] * TicksPerSec
    ELSE t[1] * SecPerHour * TicksPerSec + t[2] * SecPerMin * TicksPerSec + t[3]

\* C1: every accepted line M:S-M:S or H:M:S-H:M:S yields the range
\* (M*60+S or H*3600+M*60+S seconds), and the file 0:05-0:15, 0:30-0:40
\* yields two ranges of ten seconds each.
C1_TwoGroupIsMinSec ==
    pc = "mindur" =>
        /\ \A i \in 1..Len(ranges) :
              ranges[i] = <<SpecTime(lines[i].s), SpecTime(lines[i].e)>>
        /\ lines = <<RangeLine(<<0, 5>>, <<0, 15>>), RangeLine(<<0, 30>>, <<0, 40>>)>>
              => ranges = <<<<Sec(5), Sec(15)>>, <<Sec(30), Sec(40)>>>>

WellFormed(ls) ==
    \A i \in 1..Len(ls) :
        /\ ls[i].kind = "range"
        /\ Len(ls[i].s) >= 2
        /\ Len(ls[i].e) >= 2
        /\ parse_time(ls[i].s) < parse_time(ls[i].e)

Ascending(ls) ==
    \A i \in 1..(Len(ls) - 1) : parse_time(ls[i].e) <= parse_time(ls[i + 1].s)

\* C2: a file of well-formed lines with start < end is accepted, its ranges
\* returned in file order, iff every end is <= the next start (touching
\* ranges are accepted); otherwise it is rejected with the ordering error.
C2_AcceptIffAscending ==
    (Parsed /\ WellFormed(lines)) =>
        /\ pc = "mindur" <=> Ascending(lines)
        /\ pc = "mindur" =>
              ranges = [i \in 1..Len(lines) |->
                           <<parse_time(lines[i].s), parse_time(lines[i].e)>>]
        /\ pc # "mindur" => (pc = "exit1" /\ message = NotSorted /\ ranges = <<>>)

C2_Witness ==
    /\ pc = "mindur"
    /\ Len(ranges) = 2
    /\ ranges[1][2] = ranges[2][1]

\* The fade exceeds the shortest range of the list.
FadeExceedsMin ==
    \E i \in 1..Len(ranges) :
        /\ \A j \in 1..Len(ranges) :
              ranges[i][2] - ranges[i][1] <= ranges[j][2] - ranges[j][1]
        /\ overlap > ranges[i][2] - ranges[i][1]

\* C3: for every accepted range list the run ends with the fade-too-long
\* message and exit code 1 iff the fade exceeds the shortest range, and
\* goes on to the media stage otherwise.
C3_FadeRejectIff ==
    (pc \notin {"parse", "mindur"} /\ parse_time_ranges_file(lines).err = NoError) =>
        /\ (pc = "exit1" /\ message = FadeMessage /\ exitCode = 1) <=> FadeExceedsMin
        /\ ~FadeExceedsMin => ReachedMedia

\* C4: a run that ends in a validation failure has invoked the engine not
\* once, and the engine is only ever invoked for a range file and a fade
\* that passed every validation.
C4_ValidationBeforeEngine ==
    /\ pc = "exit1" => (engineLog = <<>> /\ ~ReachedMedia)
    /\ engineLog # <<>> =>
          /\ parse_time_ranges_file(lines).err = NoError
          /\ ~FadeExceedsMin

C4_Witness ==
    /\ pc = "exit1"
    /\ message = FadeMessage
    /\ Len(ranges) = 2

\* C7: when a run that reached the media stage has terminated, with or
\* without success, nothing is left of the temporary directory.
C7_TempRemoved ==
    (Terminated /\ ReachedMedia) => (tempFiles = {} /\ temp_dir = "removed")

C7_Witness ==
    /\ pc = "raised"
    /\ Len(segment_files) = 1
    /\ Len(engineLog) = 2
    /\ engineLog[2].op = "segment"
    /\ tempFiles = {}

\* C8: after a run that failed, the output path holds nothing the run wrote.
C8_NoOutputAfterFailure ==
    Failed => output_file = "absent"

\* C10: after the run has terminated the concat list file does not exist.
C10_ConcatListRemoved ==
    Terminated => ~concat_file

\* The offset of range i: the durations of the ranges before it.
RECURSIVE SumDurations(_, _, _)
SumDurations(rs, from, to) ==
    IF from > to THEN 0
    ELSE (rs[from][2] - rs[from][1]) + SumDurations(rs, from + 1, to)

OffsetOf(i) == SumDurations(ranges, 1, i - 1)

\* The time a written timestamp denotes, in milliseconds.
DenotedMs(t) == ((t.h * SecPerMin + t.m) * SecPerMin + t.s) * MsPerSec + t.ms

\* t denotes x (in ticks) to the nearest millisecond.
DenotesRounded(t, x) ==
    /\ 2 * (DenotedMs(t) * TicksPerMs - x) <= TicksPerMs
    /\ 2 * (x - DenotedMs(t) * TicksPerMs) <= TicksPerMs

Retimed == pc = "mux"
EmittedFor(i, c) == {k \in 1..Len(new_srt) : new_srt[k].seg = i /\ new_srt[k].src = c}
ExampleRanges == <<<<Sec(10), Sec(20)>>, <<Sec(30), Sec(40)>>>>

\* C5: a cue is emitted for range i iff it lies wholly inside range i, with
\* both times shifted by offset(i) - range[i].start; a cue across a cut or
\* in a gap is dropped (ranges (10,20),(30,40): (15,18) becomes (5,8),
\* (25,28) and (18,22) are dropped).
C5_EmittedIffContained ==
    Retimed =>
        /\ \A i \in 1..Len(ranges), c \in 1..Len(srt_lines) :
              LET st == srt_time_to_sec(srt_lines[c].st)
                  et == srt_time_to_sec(srt_lines[c].et)
              IN  /\ EmittedFor(i, c) # {} <=>
                        (srt_lines[c].ok /\ st >= ranges[i][1] /\ et <= ranges[i][2])
                  /\ \A k \in EmittedFor(i, c) :
                        /\ DenotesRounded(new_srt[k].st, st - ranges[i][1] + OffsetOf(i))
                        /\ DenotesRounded(new_srt[k].et, et - ranges[i][1] + OffsetOf(i))
        /\ \A k \in 1..Len(new_srt) :
              /\ new_srt[k].seg \in 1..Len(ranges)
              /\ new_srt[k].src \in 1..Len(srt_lines)
        /\ ranges = ExampleRanges =>
              \A c \in 1..Len(srt_lines) :
                  /\ srt_lines[c] = Cue(Stamp(0, 0, 15, 0), Stamp(0, 0, 18, 0)) =>
                        \E k \in 1..Len(new_srt) :
                            /\ new_srt[k].src = c
                            /\ new_srt[k].st = Stamp(0, 0, 5, 0)
                            /\ new_srt[k].et = Stamp(0, 0, 8, 0)
                  /\ srt_lines[c] \in {Cue(Stamp(0, 0, 25, 0), Stamp(0, 0, 28, 0)),
                                       Cue(Stamp(0, 0, 18, 0), Stamp(0, 0, 22, 0))} =>
                        \A k \in 1..Len(new_srt) : new_srt[k].src # c

C5_Witness ==
    /\ Retimed
    /\ ranges = ExampleRanges
    /\ srt_lines = << Cue(Stamp(0, 0, 15, 0), Stamp(0, 0, 18, 0)),
                      Cue(Stamp(0, 0, 18, 0), Stamp(0, 0, 22, 0)) >>
    /\ Len(new_srt) = 1
    /\ new_srt[1].st = Stamp(0, 0, 5, 0)

\* C6: every source cue is emitted at most once, so there are never more
\* output cues than source cues.
C6_EmittedAtMostOnce ==
    Retimed =>
        /\ \A c \in 1..Len(srt_lines) :
              Cardinality({k \in 1..Len(new_srt) : new_srt[k].src = c}) <= 1
        /\ Len(new_srt) <= Len(srt_lines)

WellFormedStamp(t) ==
    /\ t.h >= 0
    /\ t.m \in 0..59
    /\ t.s \in 0..59
    /\ t.ms \in 0..999

\* C9: every written timestamp has a millisecond field of exactly three
\* digits (0..999), minute and second fields in 0..59, an hour field that
\* is not wrapped, and denotes the emitted time rounded to the millisecond.
C9_StampForm ==
    Retimed =>
        \A k \in 1..Len(new_srt) :
            LET i == new_srt[k].seg
                c == new_srt[k].src
                base == OffsetOf(i) - ranges[i][1]
            IN  /\ WellFormedStamp(new_srt[k].st)
                /\ WellFormedStamp(new_srt[k].et)
                /\ DenotesRounded(new_srt[k].st, srt_time_to_sec(srt_lines[c].st) + base)
                /\ DenotesRounded(new_srt[k].et, srt_time_to_sec(srt_lines[c].et) + base)
====
